---- MODULE Spec2Model ----
(***************************************************************************)
(* graphvizier: a dot file generator (src/src/lib.rs).                     *)
(*                                                                         *)
(* Rust Strings are modelled as TLA+ strings; a char is a string of length *)
(* one.  A panic (a failed assert!) is modelled by a flag: a call returns  *)
(* its value together with ok, which is FALSE when an assertion failed.    *)
(***************************************************************************)
EXTENDS Integers, Sequences, FiniteSets, TLC

VARIABLES
  s, escaped, called,                               \* one call of Id::new(s).maybe_escaped()
  entity, start_indent, expr, printed,              \* one call of GraphBuilder::print_entity
  entities, graph_name, built, output, exprs, indent, panicked
                                                    \* a GraphBuilder and its build()

id_vars == <<s, escaped, called>>
pe_vars == <<entity, start_indent, expr, printed>>
gb_vars == <<entities, graph_name, built, output, exprs, indent, panicked>>
vars == <<s, escaped, called, entity, start_indent, expr, printed,
          entities, graph_name, built, output, exprs, indent, panicked>>

\* Option<T>: None is the empty sequence, Some(x) the sequence of x alone
None == <<>>
Some(x) == <<x>>

-----------------------------------------------------------------------------
(* Strings *)

CharAt(str, i) == SubSeq(str, i, i)

RECURSIVE StringsUpTo(_, _)
\* all strings over the alphabet of length at most n
StringsUpTo(alphabet, n) ==
  IF n = 0 THEN {""}
  ELSE LET shorter == StringsUpTo(alphabet, n - 1)
       IN  shorter \cup {str \o c : str \in shorter, c \in alphabet}

-----------------------------------------------------------------------------
(* entities::Id::maybe_escaped *)

Digits == {"0", "1", "2", "3", "4", "5", "6", "7", "8", "9"}
Lower == {"a", "b", "c", "d", "e", "f", "g", "h", "i", "j", "k", "l", "m",
          "n", "o", "p", "q", "r", "s", "t", "u", "v", "w", "x", "y", "z"}
Upper == {"A", "B", "C", "D", "E", "F", "G", "H", "I", "J", "K", "L", "M",
          "N", "O", "P", "Q", "R", "S", "T", "U", "V", "W", "X", "Y", "Z"}

\* The regex source is  [a-zA-Z_\\200-\\377][a-zA-Z_\\200-\\3770-9]*  : in the
\* first class the items are a-z, A-Z, _, an escaped backslash, 2, 0, the range
\* from 0 to backslash (0x30..0x5C), 3, 7, 7; the second class adds 0-9.
ALPHA_ID_first ==
  Lower \cup Upper \cup {"_", "\\", "2", "0", "3", "7"}
    \cup (Digits \cup {":", ";", "<", "=", ">", "?", "@"} \cup Upper \cup {"[", "\\"})

ALPHA_ID_rest == ALPHA_ID_first \cup Digits

\* ALPHA_ID matches at position i: one char of the first class, then any number
\* (also zero) of chars of the second.
ALPHA_ID(str, i) ==
  /\ i <= Len(str)
  /\ CharAt(str, i) \in ALPHA_ID_first
  /\ \E n \in 0..(Len(str) - i) : \A k \in 1..n : CharAt(str, i + k) \in ALPHA_ID_rest

\* the alternation  (.[0-9]+|[0-9]+(.[0-9]*)?)  at position j; '.' is any char
\* but a line feed
NUMERAL_ID_body(str, j) ==
  \/ /\ j + 1 <= Len(str)
     /\ CharAt(str, j) # "\n"
     /\ CharAt(str, j + 1) \in Digits
  \/ /\ j <= Len(str)
     /\ CharAt(str, j) \in Digits

\* NUMERAL_ID  [-]?(...)  matches at position i
NUMERAL_ID(str, i) ==
  \/ NUMERAL_ID_body(str, i)
  \/ /\ i <= Len(str)
     /\ CharAt(str, i) = "-"
     /\ NUMERAL_ID_body(str, i + 1)

\* RegexSet::is_match: some regex of the set matches somewhere in the text
UNQUOTED_IDS_is_match(str) ==
  \E i \in 1..Len(str) : ALPHA_ID(str, i) \/ NUMERAL_ID(str, i)

\* char::escape_debug as str's Debug uses it (a single quote is not escaped)
escape_debug(c) ==
  CASE c = "\"" -> "\\\""
    [] c = "\\" -> "\\\\"
    [] c = "\n" -> "\\n"
    [] c = "\t" -> "\\t"
    [] c = "\r" -> "\\r"
    [] OTHER -> c

RECURSIVE escape_all(_)
escape_all(str) ==
  IF str = "" THEN "" ELSE escape_debug(Head(str)) \o escape_all(Tail(str))

\* format!("{:?}", s)
fmt_debug(str) == "\"" \o escape_all(str) \o "\""

maybe_escaped(str) ==
  IF UNQUOTED_IDS_is_match(str) THEN str ELSE fmt_debug(str)

-----------------------------------------------------------------------------
(* entities *)

Vertex(id, label, color, fontcolor) ==
  [kind |-> "Vertex", id |-> id, label |-> label, color |-> color,
   fontcolor |-> fontcolor]

Edge(source, target, label, color, fontcolor) ==
  [kind |-> "Edge", source |-> source, target |-> target, label |-> label,
   color |-> color, fontcolor |-> fontcolor]

NodeDefaults(color, fontcolor) == [color |-> color, fontcolor |-> fontcolor]

Subgraph(id, label, color, fontcolor, node_defaults, children) ==
  [kind |-> "Subgraph", id |-> id, label |-> label, color |-> color,
   fontcolor |-> fontcolor, node_defaults |-> node_defaults,
   entities |-> children]

\* impl Default for Edge
Edge_default == Edge("", "", None, None, None)

-----------------------------------------------------------------------------
(* generator::GraphBuilder *)
(* A function that pushes onto the String output is modelled by the text   *)
(* it pushes; output.push_str(x) is output \o x.                           *)

GraphBuilder_new == <<>>

newline == "\n"

RECURSIVE spaces(_)
\* for _ in 0..indent { output.push(' ') }
spaces(n) == IF n <= 0 THEN "" ELSE " " \o spaces(n - 1)

\* a newline_indent that always indents by 2
newline_indent_flat(ind) == newline \o spaces(2)

newline_indent(ind) == newline \o spaces(ind)

bump_indent(ind) == ind + 2

\* assert!(*indent >= 2)
unbump_indent_assert(ind) == ind >= 2

\* an unbump_indent of 4
unbump_indent_4(ind) == ind - 4

unbump_indent(ind) == ind - 2

\* if let Some(X(v)) = opt { modifiers.push(format!("name=\"{}\"", v)) }
push_modifier(modifiers, name, opt) ==
  IF opt # None THEN Append(modifiers, name \o "=\"" \o opt[1] \o "\"")
  ELSE modifiers

RECURSIVE push_modifiers_join(_)
\* modifiers joined by ", ", with none after the last
push_modifiers_join(modifiers) ==
  IF modifiers = <<>> THEN ""
  ELSE IF Len(modifiers) = 1 THEN Head(modifiers)
  ELSE Head(modifiers) \o ", " \o push_modifiers_join(Tail(modifiers))

RECURSIVE push_modifiers(_)
\* for m in modifiers.into_iter() { output.push_str(format!("{}, ", m)) }
push_modifiers(modifiers) ==
  IF modifiers = <<>> THEN ""
  ELSE Head(modifiers) \o ", " \o push_modifiers(Tail(modifiers))

\* the modifiers of a Vertex or an Edge, and what is pushed for them
entity_modifiers(e) ==
  LET m1 == push_modifier(<<>>, "label", e.label)
      m2 == push_modifier(m1, "color", e.color)
  IN  push_modifier(m2, "fontcolor", e.fontcolor)

print_modifiers(modifiers) ==
  IF modifiers # <<>> THEN "[" \o push_modifiers(modifiers) \o "]" ELSE ""

print_Vertex(e) ==
  maybe_escaped(e.id) \o print_modifiers(entity_modifiers(e)) \o ";"

print_Edge(e) ==
  maybe_escaped(e.source) \o " -> " \o maybe_escaped(e.target)
    \o print_modifiers(entity_modifiers(e)) \o ";"

\* a label that is not followed by newline_indent
print_Subgraph_label_same_line(e, ind) ==
  IF e.label # None THEN "label = \"" \o e.label[1] \o "\";" ELSE ""

\* if let Some(Label(label)) = label { "label = ..;" newline_indent }
print_Subgraph_label(e, ind) ==
  IF e.label # None
  THEN "label = \"" \o e.label[1] \o "\";" \o newline_indent(ind)
  ELSE ""

\* the color and fontcolor lines of a Subgraph
print_Subgraph_colors(e, ind) ==
  (IF e.color # None
   THEN newline_indent(ind) \o "color = \"" \o e.color[1] \o "\";"
   ELSE "")
  \o
  (IF e.fontcolor # None
   THEN newline_indent(ind) \o "fontcolor = \"" \o e.fontcolor[1] \o "\";"
   ELSE "")

\* node defaults printed without the check of modifiers.is_empty()
print_Subgraph_node_defaults_unchecked(e, ind) ==
  IF e.node_defaults # None
  THEN LET nd == e.node_defaults[1]
           m1 == push_modifier(<<>>, "color", nd.color)
           modifiers == push_modifier(m1, "fontcolor", nd.fontcolor)
       IN  newline_indent(ind) \o "node [" \o push_modifiers(modifiers) \o "];"
  ELSE ""

\* if let Some(NodeDefaults { color, fontcolor }) = node_defaults { .. }
print_Subgraph_node_defaults(e, ind) ==
  IF e.node_defaults # None
  THEN LET nd == e.node_defaults[1]
           m1 == push_modifier(<<>>, "color", nd.color)
           modifiers == push_modifier(m1, "fontcolor", nd.fontcolor)
       IN  IF modifiers # <<>>
           THEN newline_indent(ind) \o "node [" \o push_modifiers(modifiers) \o "];"
           ELSE ""
  ELSE ""

\* a Subgraph block up to its children; ind is the bumped indent
print_Subgraph_head(e, ind) ==
  "subgraph " \o maybe_escaped(e.id) \o " {"
    \o newline_indent(ind)
    \o print_Subgraph_label(e, ind)
    \o "cluster = true;"
    \o newline_indent(ind)
    \o "rank = same;"
    \o newline
    \o print_Subgraph_colors(e, ind)
    \o print_Subgraph_node_defaults(e, ind)
    \o newline

RECURSIVE print_entity(_, _)
RECURSIVE print_children(_, _)

\* for e in entities.into_iter() { newline_indent; print_entity(e, indent); push_str }
print_children(children, ind) ==
  IF children = <<>> THEN [output |-> "", ok |-> TRUE]
  ELSE LET expr1 == print_entity(Head(children), ind)
           rest == print_children(Tail(children), ind)
       IN  [output |-> newline_indent(ind) \o expr1.output \o rest.output,
            ok |-> expr1.ok /\ rest.ok]

\* the String print_entity returns; ok is FALSE when an assert! failed in it
print_entity(e, ind0) ==
  CASE e.kind = "Vertex" -> [output |-> print_Vertex(e), ok |-> TRUE]
    [] e.kind = "Edge" -> [output |-> print_Edge(e), ok |-> TRUE]
    [] e.kind = "Subgraph" ->
         LET ind1 == bump_indent(ind0)
             body == print_children(e.entities, ind1)
             ind2 == unbump_indent(ind1)
         IN  [output |-> print_Subgraph_head(e, ind1) \o body.output
                           \o newline_indent(ind2) \o "}",
              ok |-> body.ok /\ unbump_indent_assert(ind1)]

RECURSIVE build_loop_rev(_, _)
\* a loop over self.entities from the last to the first
build_loop_rev(ents, ind) ==
  IF ents = <<>> THEN [output |-> "", exprs |-> <<>>, ok |-> TRUE]
  ELSE LET expr1 == print_entity(ents[Len(ents)], ind)
           rest == build_loop_rev(SubSeq(ents, 1, Len(ents) - 1), ind)
       IN  [output |-> newline \o newline_indent(ind) \o expr1.output \o rest.output,
            exprs |-> <<expr1.output>> \o rest.exprs,
            ok |-> expr1.ok /\ rest.ok]

RECURSIVE build_loop(_, _)
\* for entity in self.entities.into_iter() { newline; newline_indent; print_entity;
\* push_str }; exprs collects the expr of each iteration
build_loop(ents, ind) ==
  IF ents = <<>> THEN [output |-> "", exprs |-> <<>>, ok |-> TRUE]
  ELSE LET expr1 == print_entity(Head(ents), ind)
           rest == build_loop(Tail(ents), ind)
       IN  [output |-> newline \o newline_indent(ind) \o expr1.output \o rest.output,
            exprs |-> <<expr1.output>> \o rest.exprs,
            ok |-> expr1.ok /\ rest.ok]

\* a build that forgets the indent of the compound line
build_compound_unindented(ents, name) ==
  LET ind1 == bump_indent(0)
      loop == build_loop(ents, ind1)
      ind2 == unbump_indent(ind1)
  IN  [output |-> "digraph " \o maybe_escaped(name) \o " {"
                    \o newline \o "compound = true;"
                    \o loop.output
                    \o newline_indent(ind2) \o "}" \o newline,
       exprs |-> loop.exprs,
       indent |-> ind2,
       ok |-> loop.ok /\ unbump_indent_assert(ind1) /\ ind2 = 0]

build(ents, name) ==
  LET ind1 == bump_indent(0)
      loop == build_loop(ents, ind1)
      ind2 == unbump_indent(ind1)
  IN  [output |-> "digraph " \o maybe_escaped(name) \o " {"
                    \o newline_indent(ind1) \o "compound = true;"
                    \o loop.output
                    \o newline_indent(ind2) \o "}" \o newline,
       exprs |-> loop.exprs,
       indent |-> ind2,
       ok |-> loop.ok /\ unbump_indent_assert(ind1) /\ ind2 = 0]

-----------------------------------------------------------------------------
(* Bounds and inputs *)

\* longest identifier given to maybe_escaped alone
MaxIdLen == 3

\* most entities (counting the children of subgraphs) a builder holds
MaxNodes == 4

\* most children of a subgraph given to print_entity alone
MaxChildren == 2

IdAlphabet == {"a", "_", "1", "-", ".", " ", "!", "\"", "\\"}

\* the strings given to maybe_escaped alone
IdInputs == StringsUpTo(IdAlphabet, MaxIdLen)

GraphNames == {"g", ""}

Opt(values) == {None} \cup {Some(v) : v \in values}

\* every combination of label, color and fontcolor
RichVertices ==
  {Vertex("a", l, c, f) : l \in Opt({"x"}), c \in Opt({"red"}), f \in Opt({"blue"})}

RichEdges ==
  {Edge("a", "b", l, c, f) : l \in Opt({"x"}), c \in Opt({"red"}), f \in Opt({"blue"})}

RichNodeDefaults ==
  Opt({NodeDefaults(c, f) : c \in Opt({"green"}), f \in Opt({"grey"})})

RichChild ==
  {Vertex("v", None, None, None), Edge("v", "w", Some("y"), None, None),
   Subgraph("d", None, None, None, None, <<>>)}

RECURSIVE SeqsUpTo(_, _)
\* all sequences over the set of length at most n
SeqsUpTo(set, n) ==
  IF n = 0 THEN {<<>>}
  ELSE LET shorter == SeqsUpTo(set, n - 1)
       IN  shorter \cup {Append(q, x) : q \in shorter, x \in set}

\* every combination of a subgraph's optional attributes, over a few children
RichSubgraphs ==
  {Subgraph("c", l, c, f, nd, ch) :
     l \in Opt({"x"}), c \in Opt({"red"}), f \in Opt({"blue"}),
     nd \in RichNodeDefaults, ch \in SeqsUpTo(RichChild, MaxChildren)}

\* the entities given to print_entity alone
RichPool == RichVertices \cup RichEdges \cup RichSubgraphs

\* print_entity is called with the indent of build (2) or of a subgraph (4, ...)
StartIndents == {2, 4}

\* the entities a builder accepts: every tree of at most MaxNodes entities over
\* two leaves and two kinds of subgraph (one bare with an empty id, one with
\* every optional attribute)
TreeLeaves ==
  {Vertex("a", Some("x"), None, None), Edge("a", "b", Some("y"), None, None)}

TreeSubgraph(full, children) ==
  IF full
  THEN Subgraph("s", Some("l"), Some("red"), Some("blue"),
                Some(NodeDefaults(Some("green"), Some("grey"))), children)
  ELSE Subgraph("", None, None, None, None, children)

RECURSIVE Trees(_)
RECURSIVE Forests(_)

\* the sequences of trees of k entities in all
Forests(k) ==
  IF k = 0 THEN {<<>>}
  ELSE UNION {{<<t>> \o f : t \in Trees(j), f \in Forests(k - j)} : j \in 1..k}

\* the entities that hold n entities, themselves included
Trees(n) ==
  (IF n = 1 THEN TreeLeaves ELSE {})
    \cup {TreeSubgraph(full, f) : full \in BOOLEAN, f \in Forests(n - 1)}

\* the trees by their number of entities
TreesBySize == [n \in 1..MaxNodes |-> Trees(n)]

RECURSIVE Size(_)
RECURSIVE SizeAll(_)
\* the number of entities in a tree, and in a sequence of trees
Size(e) == IF e.kind = "Subgraph" THEN 1 + SizeAll(e.entities) ELSE 1
SizeAll(ents) == IF ents = <<>> THEN 0 ELSE Size(Head(ents)) + SizeAll(Tail(ents))

-----------------------------------------------------------------------------
(* States and actions *)

IdIdle == s = "" /\ escaped = "" /\ called = FALSE

PrintIdle == entity = Edge_default /\ start_indent = 0 /\ expr = "" /\ printed = FALSE

\* GraphBuilder::new()
BuilderNew ==
  /\ entities = GraphBuilder_new
  /\ graph_name = ""
  /\ built = FALSE
  /\ output = ""
  /\ exprs = <<>>
  /\ indent = 0

Init == IdIdle /\ PrintIdle /\ BuilderNew /\ panicked = FALSE

\* the entities a builder that holds ents still has room for
Room(ents) == UNION {TreesBySize[n] : n \in 1..(MaxNodes - SizeAll(ents))}

\* gb.accept_entity(e)
accept_entity(e) ==
  /\ ~built
  /\ entities' = Append(entities, e)
  /\ UNCHANGED <<graph_name, built, output, exprs, indent, panicked>>
  /\ UNCHANGED <<id_vars, pe_vars>>

\* gb.build(Id::new(name)): consumes the builder; entities keeps what it held
Build(name) ==
  /\ ~built
  /\ LET r == build(entities, name)
     IN  /\ output' = (IF r.ok THEN r.output ELSE "")
         /\ exprs' = r.exprs
         /\ indent' = r.indent
         /\ panicked' = ~r.ok
  /\ built' = TRUE
  /\ graph_name' = name
  /\ UNCHANGED entities
  /\ UNCHANGED <<id_vars, pe_vars>>

\* a new GraphBuilder after the last one was built
New ==
  /\ built
  /\ ~panicked
  /\ entities' = GraphBuilder_new
  /\ graph_name' = ""
  /\ built' = FALSE
  /\ output' = ""
  /\ exprs' = <<>>
  /\ indent' = 0
  /\ UNCHANGED panicked
  /\ UNCHANGED <<id_vars, pe_vars>>

Next ==
  \/ \E e \in Room(entities) : accept_entity(e)
  \/ \E name \in GraphNames : Build(name)
  \/ New

Spec == Init /\ [][Next]_vars

\* print_entity alone, on one entity at one indent
InitEntity ==
  /\ entity \in RichPool
  /\ start_indent \in StartIndents
  /\ expr = ""
  /\ printed = FALSE
  /\ IdIdle /\ BuilderNew /\ panicked = FALSE

PrintEntity ==
  /\ ~printed
  /\ LET r == print_entity(entity, start_indent)
     IN  /\ expr' = (IF r.ok THEN r.output ELSE "")
         /\ panicked' = ~r.ok
  /\ printed' = TRUE
  /\ UNCHANGED <<entity, start_indent>>
  /\ UNCHANGED <<id_vars, entities, graph_name, built, output, exprs, indent>>

NextEntity == PrintEntity

SpecEntity == InitEntity /\ [][NextEntity]_vars

\* maybe_escaped alone, on one string
InitId ==
  /\ s \in IdInputs
  /\ escaped = ""
  /\ called = FALSE
  /\ PrintIdle /\ BuilderNew /\ panicked = FALSE

MaybeEscaped ==
  /\ ~called
  /\ escaped' = maybe_escaped(s)
  /\ called' = TRUE
  /\ UNCHANGED s
  /\ UNCHANGED <<pe_vars, gb_vars>>

NextId == MaybeEscaped

SpecId == InitId /\ [][NextId]_vars

-----------------------------------------------------------------------------
(* Reading a rendered document *)

StartsWith(str, prefix) ==
  Len(str) >= Len(prefix) /\ SubSeq(str, 1, Len(prefix)) = prefix

\* how many times the char c occurs in str
Count(str, c) == Cardinality({i \in 1..Len(str) : CharAt(str, i) = c})

\* the lines of str: the text between line feeds
Lines(str) ==
  LET feeds == SelectSeq([i \in 1..Len(str) |-> i], LAMBDA i : CharAt(str, i) = "\n")
      breaks == <<0>> \o feeds \o <<Len(str) + 1>>
  IN  [k \in 1..(Len(breaks) - 1) |-> SubSeq(str, breaks[k] + 1, breaks[k + 1] - 1)]

\* the number of spaces a line starts with
IndentOf(line) ==
  CHOOSE n \in 0..Len(line) :
    /\ \A k \in 1..n : CharAt(line, k) = " "
    /\ n = Len(line) \/ CharAt(line, n + 1) # " "

Stripped(line) == SubSeq(line, IndentOf(line) + 1, Len(line))

IsBlank(line) == Stripped(line) = ""

BodyPrefixes == {"label = ", "cluster = ", "rank = ", "color = ", "fontcolor = ", "node ["}

\* what a line of a document is: blank, the closing brace of a block, a line of
\* a block's body, or the statement of an entity (or the digraph line)
KindOf(line) ==
  LET text == Stripped(line)
  IN  IF text = "" THEN "blank"
      ELSE IF text = "}" THEN "close"
      ELSE IF text = "compound = true;" \/ \E p \in BodyPrefixes : StartsWith(text, p)
           THEN "body"
      ELSE "stmt"

IsStatement(line) == KindOf(line) = "stmt"

\* the lines of str that are not blank
NonBlank(str) == SelectSeq(Lines(str), LAMBDA line : ~IsBlank(line))

\* the statement lines of str, without their indent
Statements(str) ==
  LET stmts == SelectSeq(Lines(str), IsStatement)
  IN  [k \in 1..Len(stmts) |-> Stripped(stmts[k])]

-----------------------------------------------------------------------------
(* Properties *)

\* the unquoted-identifier grammar, on the whole string:
\* [A-Za-z_][A-Za-z_0-9]*  or  [-]?(.[0-9]+ | [0-9]+(.[0-9]*)?)
IsAlphaId(str) ==
  /\ Len(str) >= 1
  /\ CharAt(str, 1) \in Lower \cup Upper \cup {"_"}
  /\ \A k \in 2..Len(str) : CharAt(str, k) \in Lower \cup Upper \cup {"_"} \cup Digits

IsUnsignedNumeral(str) ==
  LET dots == {k \in 1..Len(str) : CharAt(str, k) = "."}
  IN  /\ \A k \in 1..Len(str) : CharAt(str, k) \in Digits \cup {"."}
      /\ \/ dots = {} /\ Len(str) >= 1
         \/ dots = {1} /\ Len(str) >= 2
         \/ \E d \in 2..Len(str) : dots = {d}

IsNumeralId(str) ==
  \/ IsUnsignedNumeral(str)
  \/ Len(str) >= 1 /\ CharAt(str, 1) = "-" /\ IsUnsignedNumeral(Tail(str))

RECURSIVE EscapeQuotes(_)
EscapeQuotes(str) ==
  IF str = "" THEN ""
  ELSE (IF Head(str) = "\"" THEN "\\\"" ELSE Head(str)) \o EscapeQuotes(Tail(str))

\* C1: maybe_escaped returns s unchanged if and only if the whole of s matches
\* the unquoted-identifier grammar, and otherwise s in double quotes with its
\* double quotes backslash-escaped.
Claim_C1 ==
  called =>
    IF IsAlphaId(s) \/ IsNumeralId(s)
    THEN escaped = s
    ELSE escaped = "\"" \o EscapeQuotes(s) \o "\"" /\ escaped # s

\* C2: a builder that accepted nothing, built with graph name g, returns exactly
\* "digraph g {\n  compound = true;\n}\n".
Thm_C2 ==
  (built /\ entities = <<>> /\ graph_name = "g") =>
    ~panicked /\ output = "digraph g {\n  compound = true;\n}\n"

\* a builder that accepted nothing, built under the name g
Wit_C2 ==
  /\ built
  /\ ~panicked
  /\ entities = <<>>
  /\ graph_name = "g"
  /\ Lines(output)[1] = "digraph g {"

RECURSIVE PreOrder(_)
\* the statements of a sequence of entity trees in document order: each entity
\* before its children, the children in the order of the entities sequence
PreOrder(ents) ==
  IF ents = <<>> THEN <<>>
  ELSE LET e == Head(ents)
           own == CASE e.kind = "Vertex" -> <<print_Vertex(e)>>
                    [] e.kind = "Edge" -> <<print_Edge(e)>>
                    [] e.kind = "Subgraph" ->
                         <<"subgraph " \o maybe_escaped(e.id) \o " {">>
                           \o PreOrder(e.entities)
       IN  own \o PreOrder(Tail(ents))

\* the statements of the top-level entities alone
TopLevel(ents) ==
  [k \in 1..Len(ents) |-> PreOrder(<<ents[k]>>)[1]]

\* the lines of str that are statements at the indent ind
StatementsAt(str, ind) ==
  LET stmts == SelectSeq(Lines(str),
                 LAMBDA line : IsStatement(line) /\ IndentOf(line) = ind)
  IN  [k \in 1..Len(stmts) |-> Stripped(stmts[k])]

\* build emits the renderings of the accepted entities in acceptance order, each
\* once, each starting a line at indent 2 after the compound line; children
\* follow the order of their subgraph's entities
InOrder ==
  built =>
    /\ ~panicked
    /\ Len(exprs) = Len(entities)
    /\ Lines(output)[2] = "  compound = true;"
    /\ Statements(output) = <<"digraph " \o maybe_escaped(graph_name) \o " {">>
                              \o PreOrder(entities)
    /\ StatementsAt(output, 2) = TopLevel(entities)
    /\ \A k \in 1..Len(entities) :
         Statements(exprs[k]) = PreOrder(<<entities[k]>>)

\* accept_entity only appends to the builder's entities
OnlyAppends ==
  (~built /\ ~built' /\ entities' # entities) =>
    /\ Len(entities') = Len(entities) + 1
    /\ SubSeq(entities', 1, Len(entities)) = entities

\* C3: build emits the renderings of e1..en in call order, each exactly once,
\* each on its own line at indent 2 after the compound line, and the children of
\* every Subgraph in the order of its entities; accept_entity only appends.
Thm_C3 == []InOrder /\ [][OnlyAppends]_vars

RECURSIVE Depth(_)
RECURSIVE MaxDepth(_)
\* the nesting of subgraphs in an entity: 0 for a Vertex or an Edge
Depth(e) == IF e.kind = "Subgraph" THEN 1 + MaxDepth(e.entities) ELSE 0
MaxDepth(ents) ==
  IF ents = <<>> THEN 0
  ELSE LET d == Depth(Head(ents))
           r == MaxDepth(Tail(ents))
       IN  IF d >= r THEN d ELSE r

\* a subgraph with two different children and then an edge accepted, then built
Wit_C3 ==
  /\ built
  /\ Len(entities) = 2
  /\ entities[1].kind = "Subgraph"
  /\ Len(entities[1].entities) = 2
  /\ entities[1].entities[1] # entities[1].entities[2]
  /\ entities[2].kind = "Edge"

\* C5: in the output of build every rendered entity is preceded by a blank line,
\* the second and later children of a Subgraph included.
Claim_C5 ==
  built =>
    LET lines == Lines(output)
    IN  \A k \in 2..Len(lines) :
          KindOf(lines[k]) = "stmt" => IsBlank(lines[k - 1])

\* the number of body lines of a Subgraph block
BodyLines(e) ==
  2 + (IF e.label # None THEN 1 ELSE 0)
    + (IF e.color # None THEN 1 ELSE 0)
    + (IF e.fontcolor # None THEN 1 ELSE 0)
    + (IF e.node_defaults # None
          /\ (e.node_defaults[1].color # None \/ e.node_defaults[1].fontcolor # None)
       THEN 1 ELSE 0)

LineAt(ind, kind) == [indent |-> ind, kind |-> kind]

RECURSIVE Layout(_, _)
\* the indent and kind of every line that is not blank in the rendering of
\* entities nested inside d subgraphs
Layout(ents, d) ==
  IF ents = <<>> THEN <<>>
  ELSE LET e == Head(ents)
           own == IF e.kind = "Subgraph"
                  THEN <<LineAt(2 * (d + 1), "stmt")>>
                         \o [k \in 1..BodyLines(e) |-> LineAt(2 * (d + 2), "body")]
                         \o Layout(e.entities, d + 1)
                         \o <<LineAt(2 * (d + 1), "close")>>
                  ELSE <<LineAt(2 * (d + 1), "stmt")>>
       IN  own \o Layout(Tail(ents), d)

\* the indent and kind of every line of str that is not blank
LayoutOf(str) ==
  LET lines == NonBlank(str)
  IN  [k \in 1..Len(lines) |-> LineAt(IndentOf(lines[k]), KindOf(lines[k]))]

\* C6: the statement of an entity inside d subgraphs starts a line at indent
\* 2*(d+1), the body lines of a Subgraph at depth d are at indent 2*(d+2), and
\* its closing brace is alone on a line at indent 2*(d+1).
Thm_C6 ==
  built =>
    /\ ~panicked
    /\ LayoutOf(output) = <<LineAt(0, "stmt"), LineAt(2, "body")>>
                            \o Layout(entities, 0) \o <<LineAt(0, "close")>>

\* three subgraphs nested in each other with an entity in the innermost, built
Wit_C6 ==
  /\ built
  /\ MaxDepth(entities) = 3
  /\ SizeAll(entities) = 4
  /\ \E k \in 1..Len(LayoutOf(output)) : LayoutOf(output)[k] = LineAt(8, "stmt")

\* C9: build runs to completion: no assert! of unbump_indent or of build fails,
\* and the indent is 0 when the last brace is emitted.
Thm_C9 == built => ~panicked /\ indent = 0 /\ output # ""

\* subgraphs nested three deep, one with an empty id, built under an empty name
Wit_C9 ==
  /\ built
  /\ ~panicked
  /\ graph_name = ""
  /\ MaxDepth(entities) >= 3
  /\ entities[1].id = ""

\* one attribute inside brackets: name="value" and the comma and space after it
Attr(name, opt) == IF opt = None THEN "" ELSE name \o "=\"" \o opt[1] \o "\", "

\* the head of a Vertex or Edge statement
HeadOf(e) ==
  IF e.kind = "Vertex" THEN maybe_escaped(e.id)
  ELSE maybe_escaped(e.source) \o " -> " \o maybe_escaped(e.target)

\* C4: a Vertex or an Edge renders as its head, then, when one of label, color,
\* fontcolor is present, '[' and each present attribute as name="value" in that
\* order, each followed by ', ', and '];'; with none present, the head and ';'.
Thm_C4 ==
  (printed /\ entity.kind \in {"Vertex", "Edge"}) =>
    /\ ~panicked
    /\ expr = HeadOf(entity) \o
         (IF entity.label = None /\ entity.color = None /\ entity.fontcolor = None
          THEN ";"
          ELSE "[" \o Attr("label", entity.label) \o Attr("color", entity.color)
                 \o Attr("fontcolor", entity.fontcolor) \o "];")

\* an edge with a color and a fontcolor and no label, printed
Wit_C4 ==
  /\ printed
  /\ entity = Edge("a", "b", None, Some("red"), Some("blue"))
  /\ expr = "a -> b[color=\"red\", fontcolor=\"blue\", ];"

\* C7: a Subgraph renders as 'subgraph <id> {', a label line only if a label is
\* present, then always 'cluster = true;' and 'rank = same;', and ends with a
\* closing brace without a semicolon; every rendering has as many '{' as '}'.
Thm_C7 ==
  printed =>
    /\ ~panicked
    /\ Count(expr, "{") = Count(expr, "}")
    /\ entity.kind = "Subgraph" =>
         LET lines == Lines(expr)
             o == IF entity.label # None THEN 1 ELSE 0
             inner == start_indent + 2
         IN  /\ lines[1] = "subgraph " \o maybe_escaped(entity.id) \o " {"
             /\ IF entity.label # None
                THEN /\ Stripped(lines[2]) = "label = \"" \o entity.label[1] \o "\";"
                     /\ IndentOf(lines[2]) = inner
                ELSE \A k \in 1..Len(lines) : ~StartsWith(Stripped(lines[k]), "label = ")
             /\ Stripped(lines[2 + o]) = "cluster = true;"
             /\ IndentOf(lines[2 + o]) = inner
             /\ Stripped(lines[3 + o]) = "rank = same;"
             /\ IndentOf(lines[3 + o]) = inner
             /\ lines[Len(lines)] = spaces(start_indent) \o "}"

\* a subgraph without children and without optional attributes, printed
Wit_C7 ==
  /\ printed
  /\ entity = Subgraph("c", None, None, None, None, <<>>)
  /\ start_indent = 2
  /\ expr = "subgraph c {\n    cluster = true;\n    rank = same;\n\n\n  }"

\* C10: a Subgraph emits a 'node [...]' line if and only if node_defaults is
\* present with a color or a fontcolor set: one line at the inner indent,
\* 'node [' then each set attribute as name="value" in the order color,
\* fontcolor, each followed by ', ', then '];'; it comes after the subgraph's
\* color and fontcolor lines and before any child entity.
Thm_C10 ==
  (printed /\ entity.kind = "Subgraph") =>
    LET lines == Lines(expr)
        nd == entity.node_defaults
        has == nd # None /\ (nd[1].color # None \/ nd[1].fontcolor # None)
        nodes == {k \in 1..Len(lines) : StartsWith(Stripped(lines[k]), "node [")}
    IN  /\ ~panicked
        /\ Cardinality(nodes) = (IF has THEN 1 ELSE 0)
        /\ \A k \in nodes :
             /\ lines[k] = spaces(start_indent + 2) \o "node ["
                             \o Attr("color", nd[1].color)
                             \o Attr("fontcolor", nd[1].fontcolor) \o "];"
             /\ \A j \in 1..Len(lines) :
                  (\/ StartsWith(Stripped(lines[j]), "color = ")
                   \/ StartsWith(Stripped(lines[j]), "fontcolor = ")) => j < k
             /\ \A j \in 2..Len(lines) : KindOf(lines[j]) = "stmt" => j > k

\* a subgraph with a color, node defaults of a fontcolor alone and a child
Wit_C10 ==
  /\ printed
  /\ entity.kind = "Subgraph"
  /\ entity.color # None
  /\ entity.node_defaults = Some(NodeDefaults(None, Some("grey")))
  /\ Len(entity.entities) >= 1
  /\ start_indent = 2
  /\ \E k \in 1..Len(Lines(expr)) : Lines(expr)[k] = "    node [fontcolor=\"grey\", ];"

=============================================================================
